---- MODULE Spec2Model ----
(***************************************************************************)
(* Model of crates/turbo-tasks-bytes/src/stream.rs: a broadcast/replay     *)
(* stream.  A Stream handle is an Arc<Mutex<StreamState>>; the state is    *)
(* one of OpenWritable, OpenStream and Closed.  StreamRead is a cursor     *)
(* over a handle, StreamWrite gives the lock guard through which push and  *)
(* close are called.                                                       *)
(***************************************************************************)
EXTENDS Integers, Sequences, FiniteSets, TLC

\* ------------------------------------------------------------------ bounds
\* Longest data sequence a store may hold (seed, pushes, producer items).
MaxLen == 2
\* Longest Vec<Waker> an OpenWritable store may hold (a waker is pushed on
\* every poll that finds no data, so the vector is unbounded in the code).
MaxWakers == 2
\* Most values one reader is handed (re-delivery makes this unbounded).
MaxDelivered == 3

\* The element type T, the backing stores (one per Arc allocation) and the
\* readers (one task, hence one waker, per StreamRead).
Val == {1, 2}
Stores == {"a", "b"}
Readers == {"r1", "r2"}

\* The threads that evaluate == on handles, and the holder of a free lock.
Threads == {"t1", "t2"}
NoThread == "none"

NoStore == [tag |-> "NoStore"]
NoReader == "none"
NoWaker == "none"

SeqsUpTo(n) == UNION {[1..k -> Val] : k \in 0..n}

\* The members of a sequence, as a set.
Range(seq) == {seq[i] : i \in 1..Len(seq)}

\* a is a prefix of b
IsPrefix(a, b) == Len(a) <= Len(b) /\ \A i \in 1..Len(a) : a[i] = b[i]

VARIABLES
  inner,      \* Stream::inner: store -> StreamState (NoStore before construction)
  poisoned,   \* store -> whether the Mutex is poisoned
  rd,         \* StreamRead: reader -> [source, index]
  delivered,  \* history: reader -> the values its polls returned, in order
  last,       \* history: reader -> the outcome of its latest poll_next
  woken,      \* the readers whose waker was invoked since their latest poll
  origin,     \* history: store -> the constructor that made it
  ret,        \* history: the latest call and what it returned
  held,       \* store -> the thread that holds its MutexGuard across steps
  cmp         \* thread -> where it is in an evaluation of ==

vars == <<inner, poisoned, rd, delivered, last, woken, origin, ret, held, cmp>>

\* ------------------------------------------------------------- StreamState
\* StreamState::OpenWritable { data, wakers }
OpenWritable(data, wakers) ==
  [tag |-> "OpenWritable", data |-> data, wakers |-> wakers]

\* StreamState::OpenStream { source, data }.  The boxed source stream is
\* the items it has yet to yield, whether its next event is ready, the waker
\* it keeps while it is not, whether it has reported exhaustion, and whether
\* it was polled again after that.
OpenStream(source, data) ==
  [tag |-> "OpenStream", source |-> source, data |-> data]

\* StreamState::Closed { data }
Closed(data) == [tag |-> "Closed", data |-> data]

\* A source stream that will yield items; its first event may be ready or not.
NewSource(items, ready) ==
  [items |-> items, ready |-> ready, waker |-> NoWaker, done |-> FALSE,
   repolled |-> FALSE]

\* Stream::new_closed
new_closed(data) == Closed(data)

\* Stream::new_open
new_open(data) == OpenWritable(data, <<>>)

\* Stream::from_stream
from_stream(source) == OpenStream(source, <<>>)

\* Vec::get / slice::get: Some(v) as <<v>>, None as <<>>
Get(data, index) == IF index + 1 \in 1..Len(data) THEN <<data[index + 1]>> ELSE <<>>

\* The outcomes of a poll: Poll::Ready(Some(v)), Poll::Ready(None), Poll::Pending
ReadySome(v) == [tag |-> "ReadySome", val |-> <<v>>]
ReadyNone == [tag |-> "ReadyNone", val |-> <<>>]
Pending == [tag |-> "Pending", val |-> <<>>]

\* push with the wake loop left out (a defect NoLostWakeup detects)
push_no_wake(st, value) ==
  IF st.tag # "OpenWritable"
  THEN [st |-> st, wake |-> <<>>, panic |-> TRUE]
  ELSE [st |-> OpenWritable(Append(st.data, value), st.wakers),
        wake |-> <<>>, panic |-> FALSE]

\* push that returns quietly on a store that is not OpenWritable (a defect
\* UsageErrorsFailFast detects)
push_silent(st, value) ==
  IF st.tag # "OpenWritable"
  THEN [st |-> st, wake |-> <<>>, panic |-> FALSE]
  ELSE [st |-> OpenWritable(Append(st.data, value), <<>>),
        wake |-> st.wakers, panic |-> FALSE]

\* push that appends whatever the variant (a defect ClosedIsTerminal detects)
push_any_variant(st, value) ==
  [st |-> IF st.tag = "OpenWritable"
          THEN OpenWritable(Append(st.data, value), <<>>)
          ELSE [st EXCEPT !.data = Append(@, value)],
   wake |-> IF st.tag = "OpenWritable" THEN st.wakers ELSE <<>>,
   panic |-> FALSE]

\* StreamState::push.  The result is the state left behind, the wakers woken
\* in order, and whether the call panicked.
push(st, value) ==
  IF st.tag # "OpenWritable"
  THEN [st |-> st, wake |-> <<>>, panic |-> TRUE]
  ELSE [st |-> OpenWritable(Append(st.data, value), <<>>),
        wake |-> st.wakers, panic |-> FALSE]

\* close that forgets the final value (a defect FreezeWithFinal detects)
close_dropping_value(st, value) ==
  IF st.tag # "OpenWritable"
  THEN [st |-> st, wake |-> <<>>, panic |-> TRUE]
  ELSE [st |-> Closed(st.data), wake |-> st.wakers, panic |-> FALSE]

\* close that freezes only the final value, the buffered data taken and not
\* kept (a defect AppendOnlyData detects)
close_taking_data(st, value) ==
  IF st.tag # "OpenWritable"
  THEN [st |-> st, wake |-> <<>>, panic |-> TRUE]
  ELSE [st |-> Closed(value), wake |-> st.wakers, panic |-> FALSE]

\* close that drops the retained wakers without waking them (a defect
\* PendingRegistryDiscipline detects)
close_no_wake(st, value) ==
  IF st.tag # "OpenWritable"
  THEN [st |-> st, wake |-> <<>>, panic |-> TRUE]
  ELSE [st |-> Closed(st.data \o value), wake |-> <<>>, panic |-> FALSE]

\* StreamState::close.  value is the Option: <<>> for None, <<v>> for Some(v).
close(st, value) ==
  IF st.tag # "OpenWritable"
  THEN [st |-> st, wake |-> <<>>, panic |-> TRUE]
  ELSE [st |-> Closed(st.data \o value), wake |-> st.wakers, panic |-> FALSE]

\* equality that compares the data whatever the variants (a defect
\* HandleEquality detects)
StreamState_eq_data(this, other) == this.data = other.data

\* impl PartialEq for StreamState
StreamState_eq(this, other) ==
  IF this.tag = "Closed" /\ other.tag = "Closed"
  THEN this.data = other.data
  ELSE FALSE

\* The serializer's encoding of a sequence: its length, then its elements.
Encode(data) == <<Len(data)>> \o data

\* The deserializer's decoding of a sequence: <<"Ok", data>> or <<"Err">>.
Decode(bytes) ==
  IF Len(bytes) >= 1 /\ bytes[1] = Len(bytes) - 1
  THEN [tag |-> "Ok", val |-> Tail(bytes)]
  ELSE [tag |-> "Err", val |-> <<>>]

\* serialization that writes the buffered data of an open store (a defect
\* PersistenceRoundTrip detects)
StreamState_serialize_open(st) == [tag |-> "Ok", val |-> Encode(st.data)]

\* impl Serialize for StreamState
StreamState_serialize(st) ==
  IF st.tag = "Closed"
  THEN [tag |-> "Ok", val |-> Encode(st.data)]
  ELSE [tag |-> "Err", val |-> <<>>]

\* impl Deserialize for StreamState: Ok(state) as <<state>>, Err as <<>>
StreamState_deserialize(bytes) ==
  LET data == Decode(bytes)
  IN  IF data.tag = "Ok" THEN <<Closed(data.val)>> ELSE <<>>

\* impl Deserialize for Stream: Ok(the new store's state) as <<state>>
Stream_deserialize(bytes) ==
  LET data == Decode(bytes)
  IN  IF data.tag = "Ok" THEN <<new_closed(data.val)>> ELSE <<>>

\* source.poll_next_unpin(cx) on the boxed source stream.  next is what the
\* environment decides: whether the event after a yielded item is ready at
\* once and, for a source polled again after exhaustion (which the Stream
\* trait leaves open), whether it answers Ready(None) or Pending.
poll_next_unpin(source, waker, next) ==
  IF source.done
  THEN [source |-> [source EXCEPT !.repolled = TRUE],
        out |-> IF next THEN ReadyNone ELSE Pending]
  ELSE IF ~source.ready
  THEN [source |-> [source EXCEPT !.waker = waker], out |-> Pending]
  ELSE IF source.items # <<>>
  THEN [source |-> [source EXCEPT !.items = Tail(@), !.ready = next],
        out |-> ReadySome(Head(source.items))]
  ELSE [source |-> [source EXCEPT !.done = TRUE], out |-> ReadyNone]

\* What poll_next leaves behind once the lock is held: the state, the
\* cursor, the value returned, and what the source answered if it was pulled.
Polled(st, index, out, pull) ==
  [st |-> st, index |-> index, out |-> out, pull |-> pull]

\* an OpenWritable arm that moves the cursor on every poll (a defect
\* CursorWithinData detects)
poll_OpenWritable_advancing(st, index, waker) ==
  LET v == Get(st.data, index)
  IN  IF v # <<>>
      THEN Polled(st, index + 1, ReadySome(v[1]), "NotPulled")
      ELSE Polled(OpenWritable(st.data, Append(st.wakers, waker)), index + 1,
                  Pending, "NotPulled")

\* StreamRead::poll_next, the OpenWritable arm
poll_OpenWritable(st, index, waker) ==
  LET v == Get(st.data, index)
  IN  IF v # <<>>
      THEN Polled(st, index + 1, ReadySome(v[1]), "NotPulled")
      ELSE Polled(OpenWritable(st.data, Append(st.wakers, waker)), index,
                  Pending, "NotPulled")

\* StreamRead::poll_next, the OpenStream arm
poll_OpenStream(st, index, waker, next) ==
  LET v == Get(st.data, index)
      p == poll_next_unpin(st.source, waker, next)
  IN  IF v # <<>>
      THEN Polled(st, index + 1, ReadySome(v[1]), "NotPulled")
      ELSE IF p.out.tag = "ReadySome"
      THEN Polled(OpenStream(p.source, Append(st.data, p.out.val[1])), index,
                  p.out, p.out.tag)
      ELSE Polled(OpenStream(p.source, st.data), index, Pending, p.out.tag)

\* a Closed arm that tells the reader to wait at the end of the data (a
\* defect SuspensionOrPull detects)
poll_Closed_waiting(st, index) ==
  LET v == Get(st.data, index)
  IN  Polled(st, index, IF v # <<>> THEN ReadySome(v[1]) ELSE Pending,
             "NotPulled")

\* a Closed arm that moves the cursor on every poll (a defect
\* IdempotentTermination detects)
poll_Closed_advancing(st, index) ==
  LET v == Get(st.data, index)
  IN  Polled(st, index + 1, IF v # <<>> THEN ReadySome(v[1]) ELSE ReadyNone,
             "NotPulled")

\* StreamRead::poll_next, the Closed arm
poll_Closed(st, index) ==
  LET v == Get(st.data, index)
  IN  Polled(st, index, IF v # <<>> THEN ReadySome(v[1]) ELSE ReadyNone,
             "NotPulled")

\* StreamRead::poll_next once the lock is held
poll_next(st, index, waker, next) ==
  CASE st.tag = "OpenWritable" -> poll_OpenWritable(st, index, waker)
    [] st.tag = "OpenStream" -> poll_OpenStream(st, index, waker, next)
    [] st.tag = "Closed" -> poll_Closed(st, index)

\* ------------------------------------------------------------------ state
\* A thread that is not inside ==, and one that holds the guard of this and
\* is about to lock other (impl PartialEq for Stream, between its two locks).
Idle == [pc |-> "idle", this |-> "none", other |-> "none"]
LockingOther(this, other) == [pc |-> "lock_other", this |-> this, other |-> other]

\* What a call returned: the operation, the stores or the reader it was
\* made on, the outcome, the payload (the wakers woken by a push or a close,
\* the value of a poll, the bytes of a serialization), what the source
\* answered if the call pulled it, and the outcome of the reader's poll
\* before this one.
Ret(op, on, res, val, pull, before) ==
  [op |-> op, on |-> on, res |-> res, val |-> val, pull |-> pull,
   before |-> before]

\* The return of a call that is no poll.
Returned(op, on, res, val) == Ret(op, on, res, val, "NotPulled", "NotPolled")

Init ==
  /\ inner = [s \in Stores |-> NoStore]
  /\ poisoned = [s \in Stores |-> FALSE]
  /\ rd = [r \in Readers |-> [source |-> NoReader, index |-> 0]]
  /\ delivered = [r \in Readers |-> <<>>]
  /\ last = [r \in Readers |-> "NotPolled"]
  /\ woken = {}
  /\ origin = [s \in Stores |-> "none"]
  /\ ret = Returned("none", <<>>, "none", <<>>)
  /\ held = [s \in Stores |-> NoThread]
  /\ cmp = [t \in Threads |-> Idle]

\* Stream::new_closed(data): a new backing store, closed from the start.
Stream_new_closed(s, data) ==
  /\ inner[s] = NoStore
  /\ inner' = [inner EXCEPT ![s] = new_closed(data)]
  /\ origin' = [origin EXCEPT ![s] = "new_closed"]
  /\ ret' = Returned("new_closed", <<s>>, "Ok", <<>>)
  /\ UNCHANGED <<poisoned, rd, delivered, last, woken, held, cmp>>

\* Stream::new_open(data): a new backing store, open for writing.
Stream_new_open(s, data) ==
  /\ inner[s] = NoStore
  /\ inner' = [inner EXCEPT ![s] = new_open(data)]
  /\ origin' = [origin EXCEPT ![s] = "new_open"]
  /\ ret' = Returned("new_open", <<s>>, "Ok", <<>>)
  /\ UNCHANGED <<poisoned, rd, delivered, last, woken, held, cmp>>

\* Stream::from_stream(source): a new backing store pulling from source.
Stream_from_stream(s, items, ready) ==
  /\ inner[s] = NoStore
  /\ inner' = [inner EXCEPT ![s] = from_stream(NewSource(items, ready))]
  /\ origin' = [origin EXCEPT ![s] = "from_stream"]
  /\ ret' = Returned("from_stream", <<s>>, "Ok", <<>>)
  /\ UNCHANGED <<poisoned, rd, delivered, last, woken, held, cmp>>

\* Stream::read: a new reader of store s, its cursor at 0.
read(r, s) ==
  /\ inner[s] # NoStore
  /\ rd[r].source = NoReader
  /\ rd' = [rd EXCEPT ![r] = [source |-> s, index |-> 0]]
  /\ ret' = Returned("read", <<r>>, "Ok", <<>>)
  /\ UNCHANGED <<inner, poisoned, delivered, last, woken, origin, held, cmp>>

\* A writer's call through the guard of StreamWrite::lock: call is push or
\* close applied to the state.  A poisoned lock gives the caller Err; a
\* panic while the guard is held poisons the lock.
Write(op, s, call) ==
  /\ inner[s] # NoStore
  /\ held[s] = NoThread
  /\ IF poisoned[s]
     THEN /\ ret' = Returned(op, <<s>>, "Poisoned", <<>>)
          /\ UNCHANGED <<inner, poisoned, woken>>
     ELSE /\ inner' = [inner EXCEPT ![s] = call.st]
          /\ poisoned' = [poisoned EXCEPT ![s] = call.panic]
          /\ woken' = woken \cup Range(call.wake)
          /\ ret' = Returned(op, <<s>>, IF call.panic THEN "panic" ELSE "Ok",
                        call.wake)
  /\ UNCHANGED <<rd, delivered, last, origin, held, cmp>>

\* lock()?.push(value)
Push(s, value) ==
  /\ inner[s] # NoStore
  /\ Len(inner[s].data) < MaxLen
  /\ Write("push", s, push(inner[s], value))

\* lock()?.close(value)
Close(s, value) ==
  /\ inner[s] # NoStore
  /\ Len(inner[s].data) + Len(value) <= MaxLen
  /\ Write(IF value = <<>> THEN "close" ELSE "close_some", s,
           close(inner[s], value))

\* The environment: the source's next event (an item or its end) becomes
\* ready, and the source wakes the waker it kept.
SourceReady(s) ==
  /\ inner[s].tag = "OpenStream"
  /\ ~inner[s].source.ready
  /\ ~inner[s].source.done
  /\ inner' = [inner EXCEPT ![s].source.ready = TRUE,
                            ![s].source.waker = NoWaker]
  /\ woken' = woken \cup ({inner[s].source.waker} \ {NoWaker})
  /\ ret' = Returned("source_ready", <<s>>, "Ok", <<>>)
  /\ UNCHANGED <<poisoned, rd, delivered, last, origin, held, cmp>>

\* <StreamRead as Stream>::poll_next by reader r, whose task's waker is r.
PollNext(r) ==
  LET s == rd[r].source
  IN  /\ s # NoReader
      /\ held[s] = NoThread
      /\ woken' = woken \ {r}
      /\ IF poisoned[s]
         THEN /\ last' = [last EXCEPT ![r] = "panic"]
              /\ ret' = Ret("poll_next", <<r>>, "panic", <<>>, "NotPulled", last[r])
              /\ UNCHANGED <<inner, rd, delivered>>
         ELSE \E next \in BOOLEAN :
                LET p == poll_next(inner[s], rd[r].index, r, next)
                IN  /\ p.out.tag = "ReadySome" => Len(delivered[r]) < MaxDelivered
                    /\ p.st.tag = "OpenWritable" => Len(p.st.wakers) <= MaxWakers
                    /\ inner' = [inner EXCEPT ![s] = p.st]
                    /\ rd' = [rd EXCEPT ![r].index = p.index]
                    /\ delivered' = [delivered EXCEPT ![r] = @ \o p.out.val]
                    /\ last' = [last EXCEPT ![r] = p.out.tag]
                    /\ ret' = Ret("poll_next", <<r>>, p.out.tag, p.out.val, p.pull, last[r])
      /\ UNCHANGED <<poisoned, origin, held, cmp>>

\* impl PartialEq for Stream: a == b.  A poisoned lock panics at unwrap; if
\* it is b's, a's guard is dropped by the unwinding and a is poisoned too.
Stream_eq(a, b) ==
  /\ inner[a] # NoStore
  /\ inner[b] # NoStore
  /\ a # b => held[a] = NoThread /\ held[b] = NoThread
  /\ IF a = b
     THEN /\ ret' = Returned("eq", <<a, b>>, "true", <<>>)
          /\ UNCHANGED <<poisoned, origin>>
     ELSE IF poisoned[a] \/ poisoned[b]
     THEN /\ ret' = Returned("eq", <<a, b>>, "panic", <<>>)
          /\ poisoned' = [poisoned EXCEPT ![a] = TRUE]
     ELSE /\ ret' = Returned("eq", <<a, b>>,
                        IF StreamState_eq(inner[a], inner[b]) THEN "true" ELSE "false",
                        <<>>)
          /\ UNCHANGED <<poisoned, origin>>
  /\ UNCHANGED <<inner, rd, delivered, last, woken, origin, held, cmp>>

\* impl PartialEq for Stream, a == b on distinct stores, evaluated by thread
\* t in two steps.  First step: self.inner.lock().unwrap().  The lock call
\* blocks while another thread holds the guard; a poisoned lock panics.
eq_lock_this(t, a, b) ==
  /\ cmp[t] = Idle
  /\ a # b
  /\ inner[a] # NoStore
  /\ inner[b] # NoStore
  /\ held[a] = NoThread
  /\ IF poisoned[a]
     THEN /\ ret' = Returned("eq", <<a, b>>, "panic", <<>>)
          /\ UNCHANGED <<held, cmp>>
     ELSE /\ held' = [held EXCEPT ![a] = t]
          /\ cmp' = [cmp EXCEPT ![t] = LockingOther(a, b)]
          /\ ret' = Returned("eq_lock_this", <<a, b>>, "Ok", <<>>)
  /\ UNCHANGED <<inner, poisoned, rd, delivered, last, woken, origin>>

\* Second step: other.inner.lock().unwrap(), the comparison of the two
\* states, and the drop of both guards at the end of the block.  A poisoned
\* lock panics, and the unwinding drops the guard of this, poisoning it.
eq_lock_other(t) ==
  LET a == cmp[t].this
      b == cmp[t].other
  IN  /\ cmp[t].pc = "lock_other"
      /\ held[b] = NoThread
      /\ held' = [held EXCEPT ![a] = NoThread]
      /\ cmp' = [cmp EXCEPT ![t] = Idle]
      /\ IF poisoned[b]
         THEN /\ ret' = Returned("eq", <<a, b>>, "panic", <<>>)
              /\ poisoned' = [poisoned EXCEPT ![a] = TRUE]
         ELSE /\ ret' = Returned("eq", <<a, b>>,
                            IF StreamState_eq(inner[a], inner[b])
                            THEN "true" ELSE "false",
                            <<>>)
              /\ UNCHANGED poisoned
      /\ UNCHANGED <<inner, rd, delivered, last, woken, origin>>

\* impl Serialize for Stream
Stream_serialize(s) ==
  /\ inner[s] # NoStore
  /\ held[s] = NoThread
  /\ LET out == StreamState_serialize(inner[s])
     IN  ret' = IF poisoned[s]
                THEN Returned("serialize", <<s>>, "ErrPoisoned", <<>>)
                ELSE Returned("serialize", <<s>>, out.tag, out.val)
  /\ UNCHANGED <<inner, poisoned, rd, delivered, last, woken, origin, held, cmp>>

\* The inputs handed to the deserializer: the bytes the latest serialization
\* gave, whole or cut short by one.
Inputs ==
  IF ret.op = "serialize" /\ ret.res = "Ok"
  THEN {ret.val, SubSeq(ret.val, 1, Len(ret.val) - 1)}
  ELSE {}

\* impl Deserialize for Stream: a new backing store s from bytes, which
\* were serialized from store t.
Deserialize(s, bytes) ==
  /\ inner[s] = NoStore
  /\ LET out == Stream_deserialize(bytes)
     IN  IF out # <<>>
         THEN /\ inner' = [inner EXCEPT ![s] = out[1]]
              /\ origin' = [origin EXCEPT ![s] = "deserialize"]
              /\ ret' = Returned("deserialize", <<s>> \o ret.on, "Ok", bytes)
         ELSE /\ ret' = Returned("deserialize", <<s>> \o ret.on, "Err", bytes)
              /\ UNCHANGED <<inner, origin>>
  /\ UNCHANGED <<poisoned, rd, delivered, last, woken, held, cmp>>

\* One store with its writer, its source and its readers.
Next ==
  \/ \E data \in SeqsUpTo(MaxLen) : Stream_new_closed("a", data)
  \/ \E data \in SeqsUpTo(MaxLen) : Stream_new_open("a", data)
  \/ \E items \in SeqsUpTo(MaxLen), ready \in BOOLEAN :
       Stream_from_stream("a", items, ready)
  \/ \E r \in Readers : read(r, "a")
  \/ \E value \in Val : Push("a", value)
  \/ \E value \in SeqsUpTo(1) : Close("a", value)
  \/ SourceReady("a")
  \/ \E r \in Readers : PollNext(r)

Spec == Init /\ [][Next]_vars

\* Two stores, their writers and sources, and the operations on their
\* handles: equality, serialization and deserialization.
NextHandles ==
  \/ \E s \in Stores, data \in SeqsUpTo(MaxLen) : Stream_new_closed(s, data)
  \/ \E s \in Stores, data \in SeqsUpTo(MaxLen) : Stream_new_open(s, data)
  \/ \E s \in Stores, items \in SeqsUpTo(MaxLen), ready \in BOOLEAN :
       Stream_from_stream(s, items, ready)
  \/ \E s \in Stores, value \in Val : Push(s, value)
  \/ \E s \in Stores, value \in SeqsUpTo(1) : Close(s, value)
  \/ \E s \in Stores : SourceReady(s)
  \/ \E a \in Stores, b \in Stores : Stream_eq(a, b)
  \/ \E s \in Stores : Stream_serialize(s)
  \/ \E s \in Stores, bytes \in Inputs : Deserialize(s, bytes)

SpecHandles == Init /\ [][NextHandles]_vars

\* One store with its writer, its source and its readers, and the operations
\* on handles: == against itself and against a second, closed and empty,
\* store, and serialization.
NextStore ==
  \/ Next
  \/ Stream_new_closed("b", <<>>)
  \/ \E a \in Stores, b \in Stores : Stream_eq(a, b)
  \/ Stream_serialize("a")

SpecStore == Init /\ [][NextStore]_vars

\* Two stores, their writers, and two threads that evaluate == on their
\* handles, each lock a step of its own.
NextLocks ==
  \/ \E s \in Stores, data \in SeqsUpTo(1) : Stream_new_closed(s, data)
  \/ \E s \in Stores, data \in SeqsUpTo(1) : Stream_new_open(s, data)
  \/ \E s \in Stores : Close(s, <<>>)
  \/ \E t \in Threads, a \in Stores, b \in Stores : eq_lock_this(t, a, b)
  \/ \E t \in Threads : eq_lock_other(t)

SpecLocks == Init /\ [][NextLocks]_vars

\* ------------------------------------------------------------------ claims
\* Reader r has been created by read().
Attached(r) == rd[r].source # NoReader

\* The state of the store reader r reads.
StoreOf(r) == inner[rd[r].source]

\* The latest call was a poll_next by reader r that returned (a poll on a
\* poisoned lock panics at unwrap and returns nothing).
PolledBy(r) == ret.op = "poll_next" /\ ret.on = <<r>> /\ ret.res # "panic"

\* C1. Replay equivalence: a reader of a store that was opened writable and
\* then closed is handed the store's data in order, each element once: what
\* it has been handed is a prefix of the data, and all of the data once a
\* poll has returned end-of-sequence.
ReplayEquivalence ==
  \A r \in Readers :
    (Attached(r) /\ origin[rd[r].source] = "new_open" /\ StoreOf(r).tag = "Closed")
      => /\ IsPrefix(delivered[r], StoreOf(r).data)
         /\ last[r] = "ReadyNone" => delivered[r] = StoreOf(r).data

\* C2. Multi-reader consistency: in every reachable state, whatever the
\* variant of the store, the values a reader has been handed so far are a
\* prefix of the store's data.
MultiReaderConsistency ==
  \A r \in Readers : Attached(r) => IsPrefix(delivered[r], StoreOf(r).data)

\* C3. Lazy exactly-once: on a store built by from_stream, a poll that pulls
\* a value from the source hands it to the reader and moves the reader's
\* cursor past it, so that the reader's values are exactly the first
\* rd[r].index elements of the cache, none twice.
LazyExactlyOnce ==
  \A r \in Readers :
    (Attached(r) /\ origin[rd[r].source] = "from_stream")
      => /\ (PolledBy(r) /\ ret.pull = "ReadySome")
              => rd[r].index = Len(StoreOf(r).data)
         /\ delivered[r] = SubSeq(StoreOf(r).data, 1, rd[r].index)

\* C4. Lazy exhaustion closes the store: after a poll that pulled the source
\* and was told it is exhausted, the store is Closed and the poll has
\* returned end-of-sequence.
LazyExhaustionCloses ==
  \A r \in Readers :
    (Attached(r) /\ PolledBy(r) /\ ret.pull = "ReadyNone")
      => StoreOf(r).tag = "Closed" /\ ret.res = "ReadyNone"

\* Reader r was told to wait by its latest poll and no waker of its has
\* been invoked since.
Suspended(r) == Attached(r) /\ last[r] = "Pending" /\ r \notin woken

\* A suspended reader of a store that was opened writable: the store is
\* still OpenWritable, nothing is buffered at the reader's cursor, and the
\* store holds the reader's waker.
SuspendedOnlyWithoutData ==
  \A r \in Readers :
    (Suspended(r) /\ origin[rd[r].source] = "new_open")
      => /\ StoreOf(r).tag = "OpenWritable"
         /\ rd[r].index = Len(StoreOf(r).data)
         /\ r \in Range(StoreOf(r).wakers)

\* The poll of such a store that follows a poll that returned Pending: the
\* element at the cursor if there is one, end-of-sequence if the store was
\* closed without one, Pending otherwise.
PollAfterPending ==
  \A r \in Readers :
    (/\ Attached(r)
     /\ origin[rd[r].source] = "new_open"
     /\ last[r] = "Pending"
     /\ ret'.op = "poll_next" /\ ret'.on = <<r>> /\ ret'.res # "panic")
      => LET st == StoreOf(r)
             index == rd[r].index
         IN  IF index < Len(st.data)
             THEN ret'.res = "ReadySome" /\ ret'.val = <<st.data[index + 1]>>
             ELSE IF st.tag = "Closed"
             THEN ret'.res = "ReadyNone"
             ELSE ret'.res = "Pending"

\* C5. No lost wakeup on an OpenWritable store: a reader stays suspended
\* (told to wait, not woken since) only while the store is OpenWritable with
\* nothing at the reader's cursor and with the reader's waker registered;
\* every push and every close wakes it; and its next poll returns the
\* element at its cursor, or end-of-sequence if the store was closed without
\* new data.
NoLostWakeup == [](SuspendedOnlyWithoutData) /\ [][PollAfterPending]_vars

\* C5 witness: a reader that was told to wait has, after a push, polled
\* again and got the value at its cursor.
NoLostWakeupWitness ==
  \E r \in Readers :
    /\ Attached(r) /\ PolledBy(r)
    /\ origin[rd[r].source] = "new_open"
    /\ StoreOf(r).tag = "OpenWritable"
    /\ ret.before = "Pending"
    /\ ret.res = "ReadySome"

\* C6. Idempotent termination: once a poll of a reader has returned
\* end-of-sequence, no step changes the reader's cursor and every later poll
\* of it that returns (a poll on a poisoned lock panics) returns
\* end-of-sequence.
IdempotentTermination ==
  [][\A r \in Readers :
       last[r] = "ReadyNone"
         => last'[r] \in {"ReadyNone", "panic"} /\ rd'[r] = rd[r]]_vars

\* C6 witness: a poll has returned end-of-sequence to a reader whose poll
\* before had returned end-of-sequence too.
IdempotentTerminationWitness ==
  \E r \in Readers :
    PolledBy(r) /\ ret.before = "ReadyNone" /\ ret.res = "ReadyNone"

\* C7. Freeze-with-final: on every reachable OpenWritable state and for
\* every value v, close(Some(v)) leaves the state that push(v) followed by
\* close(None) leaves, which is Closed with the data and v appended, and
\* wakes the same wakers in the same order; and a store on which
\* close(Some(v)) has returned is Closed with the woken wakers notified.
FreezeWithFinal ==
  /\ \A s \in Stores :
       inner[s].tag = "OpenWritable"
         => \A v \in Val :
              LET one == close(inner[s], <<v>>)
                  first == push(inner[s], v)
                  then == close(first.st, <<>>)
              IN  /\ ~one.panic /\ ~first.panic /\ ~then.panic
                  /\ one.st = then.st
                  /\ one.st = Closed(Append(inner[s].data, v))
                  /\ one.wake = first.wake \o then.wake
                  /\ one.wake = inner[s].wakers
  /\ (ret.op = "close_some" /\ ret.res = "Ok")
       => /\ inner[ret.on[1]].tag = "Closed"
          /\ inner[ret.on[1]].data # <<>>
          /\ Range(ret.val) \subseteq woken

\* C7 witness: close(Some(v)) has returned on a store that held wakers.
FreezeWithFinalWitness ==
  ret.op = "close_some" /\ ret.res = "Ok" /\ ret.val # <<>>

\* Element-wise equality of two sequences.
ElementWiseEqual(x, y) == Len(x) = Len(y) /\ \A i \in 1..Len(x) : x[i] = y[i]

\* What serializing the state of a store and deserializing the result give:
\* a Closed state serializes to the encoding of its data, which
\* deserializes to a Closed state equal to it; an open state does not
\* serialize.
RoundTrip(st) ==
  LET out == StreamState_serialize(st)
  IN  IF st.tag = "Closed"
      THEN /\ out = [tag |-> "Ok", val |-> Encode(st.data)]
           /\ Stream_deserialize(out.val) = <<Closed(st.data)>>
           /\ StreamState_deserialize(out.val) = <<st>>
           /\ StreamState_eq(Stream_deserialize(out.val)[1], st)
      ELSE out.tag = "Err"

\* What the latest call returned, if it was a serialization: Ok with the
\* encoding of the data if the store is Closed and its lock could be taken,
\* an error if the store is open.
SerializeReturned ==
  ret.op = "serialize"
    => LET s == ret.on[1]
       IN  /\ ret.res = "Ok"
                => inner[s].tag = "Closed" /\ ret.val = Encode(inner[s].data)
           /\ (inner[s].tag = "Closed" /\ ~poisoned[s]) => ret.res = "Ok"
           /\ inner[s].tag # "Closed" => ret.res \in {"Err", "ErrPoisoned"}

\* What the latest call returned, if it was a deserialization: the new store
\* is Closed, and equal to the store the bytes were serialized from if the
\* bytes are those of its serialization.
DeserializeReturned ==
  ret.op = "deserialize"
    => LET new == ret.on[1]
           old == ret.on[2]
       IN  /\ ret.res = "Ok" => inner[new].tag = "Closed"
           /\ ret.res = "Err" => inner[new] = NoStore
           /\ ret.val = Encode(inner[old].data)
                => ret.res = "Ok" /\ StreamState_eq(inner[new], inner[old])

\* C8. Persistence round-trip: serializing a Closed store gives the encoding
\* of its elements, and deserializing that gives a Closed store equal to it;
\* serializing an OpenWritable or OpenStream store is an error and changes
\* nothing; a deserialized store is never open.
PersistenceRoundTrip ==
  /\ [](\A s \in Stores : inner[s] # NoStore => RoundTrip(inner[s]))
  /\ [](SerializeReturned /\ DeserializeReturned)
  /\ [](\A s \in Stores :
          origin[s] = "deserialize" => inner[s].tag = "Closed")
  /\ [][ret'.op = "serialize"
          => inner' = inner /\ poisoned' = poisoned /\ woken' = woken]_vars

\* C8 witness: a store of two elements has been serialized and the bytes
\* deserialized into a second store, equal to the first.
PersistenceRoundTripWitness ==
  /\ ret.op = "deserialize" /\ ret.res = "Ok"
  /\ Len(inner[ret.on[1]].data) = 2
  /\ ret.on[1] # ret.on[2]
  /\ StreamState_eq(inner[ret.on[1]], inner[ret.on[2]])

\* C9. Handle equality: a == b returns true exactly when a and b share the
\* backing store, or both stores are Closed with element-wise equal data;
\* with distinct stores of which one is open it returns false, whatever the
\* data.
HandleEquality ==
  (ret.op = "eq" /\ ret.res # "panic")
    => LET a == ret.on[1]
           b == ret.on[2]
       IN  ret.res = "true"
             <=> \/ a = b
                 \/ /\ inner[a].tag = "Closed"
                    /\ inner[b].tag = "Closed"
                    /\ ElementWiseEqual(inner[a].data, inner[b].data)

\* C9 witness: two distinct stores with the same data, not empty, one of
\* them OpenWritable, have compared unequal.
HandleEqualityWitness ==
  /\ ret.op = "eq" /\ ret.res = "false"
  /\ ret.on[1] # ret.on[2]
  /\ inner[ret.on[1]].tag = "OpenWritable"
  /\ inner[ret.on[1]].data # <<>>
  /\ inner[ret.on[1]].data = inner[ret.on[2]].data

\* C10. Usage errors fail fast: a push or a close called through the guard
\* on a store that is OpenStream or Closed panics, leaves the store's state
\* as it was and wakes nobody.
UsageErrorsFailFast ==
  [][\A s \in Stores :
       (/\ ret'.op \in {"push", "close", "close_some"}
        /\ ret'.on = <<s>>
        /\ ~poisoned[s]
        /\ inner[s].tag \in {"OpenStream", "Closed"})
         => /\ ret'.res = "panic"
            /\ ret'.val = <<>>
            /\ inner'[s] = inner[s]
            /\ woken' = woken]_vars

\* C10 witness: a push on a Closed store, or a close on an OpenStream
\* store, has panicked.
UsageErrorsFailFastWitness ==
  /\ ret.op \in {"push", "close"}
  /\ ret.res = "panic"
  /\ inner[ret.on[1]].tag = IF ret.op = "push" THEN "Closed" ELSE "OpenStream"

\* The stores whose lock the call that returned c takes, read in the state
\* before the call.
LocksOf(c) ==
  CASE c.op = "poll_next" -> {rd[c.on[1]].source}
    [] c.op = "eq" -> IF c.on[1] = c.on[2] THEN {} ELSE {c.on[1], c.on[2]}
    [] c.op \in {"push", "close", "close_some", "serialize"} -> {c.on[1]}
    [] OTHER -> {}

\* C11. Access-contention failures are returned as results: every call that
\* takes the lock of a store whose lock is poisoned (StreamWrite::lock, a
\* reader's poll_next, ==, serialize) returns a failure to its caller and
\* does not panic.
AccessContentionReturned ==
  [][(\E s \in LocksOf(ret') : poisoned[s])
       => ret'.res \in {"Poisoned", "ErrPoisoned"}]_vars

\* C12. Closed is terminal and immutable: no push, close, poll_next, == or
\* serialization changes the variant or the data of a store that is Closed,
\* and the only changes of variant are OpenWritable to Closed and OpenStream
\* to Closed.
ClosedIsTerminal ==
  [][\A s \in Stores :
       inner[s] # NoStore =>
         /\ inner[s].tag = "Closed" => inner'[s] = inner[s]
         /\ inner'[s].tag # inner[s].tag =>
              /\ inner[s].tag \in {"OpenWritable", "OpenStream"}
              /\ inner'[s].tag = "Closed"]_vars

\* A store opened for writing was closed with data, a reader was handed an
\* element of it, and a push then failed on it.
ClosedIsTerminalWitness ==
  /\ inner["a"].tag = "Closed"
  /\ origin["a"] = "new_open"
  /\ inner["a"].data # <<>>
  /\ \E r \in Readers : delivered[r] # <<>>
  /\ ret.op = "push"
  /\ ret.res = "panic"

\* C13. Append-only data: across every step of every operation the data of a
\* store before the step is a prefix of its data after the step; closing an
\* OpenWritable store keeps every element in order.
AppendOnlyData ==
  [][\A s \in Stores :
       inner[s] # NoStore => IsPrefix(inner[s].data, inner'[s].data)]_vars

\* A close with a final value has just frozen a store that already held an
\* element: the frozen data is that element, then the final value.
AppendOnlyDataWitness ==
  /\ ret.op = "close_some"
  /\ ret.res = "Ok"
  /\ inner["a"].tag = "Closed"
  /\ Len(inner["a"].data) = 2
  /\ inner["a"].data[1] # inner["a"].data[2]

\* The store retains wakers only in its OpenWritable variant, and each one
\* retained is the waker of a reader of that store whose latest poll found
\* its cursor at the end of the data and was told to wait.
RetainedOnlyWhenPending ==
  \A s \in Stores :
    /\ "wakers" \in DOMAIN inner[s] => inner[s].tag = "OpenWritable"
    /\ inner[s].tag = "OpenWritable" =>
         \A i \in 1..Len(inner[s].wakers) :
           LET r == inner[s].wakers[i]
           IN  /\ r \in Readers
               /\ rd[r].source = s
               /\ rd[r].index = Len(inner[s].data)
               /\ last[r] = "Pending"

\* A push or a close that succeeds leaves no waker retained, and the wake
\* calls it made are exactly the wakers retained before it, one call each.
DrainedByMutation ==
  (ret'.op \in {"push", "close", "close_some"} /\ ret'.res = "Ok") =>
    LET s == ret'.on[1]
    IN  /\ inner[s].tag = "OpenWritable"
        /\ inner'[s].tag = "OpenWritable" => inner'[s].wakers = <<>>
        /\ "wakers" \in DOMAIN inner'[s] => inner'[s].tag = "OpenWritable"
        /\ ret'.val = inner[s].wakers
        /\ Range(inner[s].wakers) \subseteq woken'

\* C14. Pending registry discipline: the store holds a waker only while it is
\* OpenWritable and only for a reader that polled with its cursor equal to
\* the data length; right after every push and every close no waker is
\* retained and every waker retained before was woken exactly once.
PendingRegistryDiscipline ==
  [](RetainedOnlyWhenPending) /\ [][DrainedByMutation]_vars

\* A close has just woken the two readers that were waiting.
PendingRegistryDisciplineWitness ==
  /\ ret.op = "close"
  /\ ret.res = "Ok"
  /\ Range(ret.val) = Readers
  /\ Readers \subseteq woken
  /\ \A r \in Readers : last[r] = "Pending"

\* C15. Cursor discipline: a reader's cursor starts at 0, never decreases and
\* equals the number of values the reader has been handed: every poll that
\* returns a value advances it by one, whatever the variant of the store, and
\* a poll that returns pending or end-of-sequence leaves it.
CursorDiscipline ==
  /\ [](\A r \in Readers : rd[r].index = Len(delivered[r]))
  /\ [][\A r \in Readers : rd'[r].index >= rd[r].index]_vars

\* The store, and the element at the cursor, that the poll which has just
\* returned found when it took the lock.
PollReturns == ret'.op = "poll_next" /\ ret'.res # "panic"
PolledStore == inner[rd[ret'.on[1]].source]
AtCursor == Get(PolledStore.data, rd[ret'.on[1]].index)

\* C16. Suspension condition: a poll returns pending exactly when the store
\* has no buffered value at the reader's cursor and the store is not Closed.
SuspensionCondition ==
  [][PollReturns =>
       (ret'.res = "Pending"
          <=> (AtCursor = <<>> /\ PolledStore.tag # "Closed"))]_vars

\* C16, amended. A poll never returns pending when a value is buffered at the
\* cursor or the store is Closed; with nothing buffered at the cursor of a
\* store that is not Closed it returns pending, except that on an OpenStream
\* store it pulls the source and returns the value the source yields, if it
\* yields one.  It never returns end-of-sequence on a store that is not Closed.
SuspensionOrPull ==
  [][PollReturns =>
       /\ (AtCursor # <<>> \/ PolledStore.tag = "Closed")
            => ret'.res # "Pending"
       /\ AtCursor # <<>> => ret'.res = "ReadySome" /\ ret'.val = AtCursor
       /\ (AtCursor = <<>> /\ PolledStore.tag # "Closed") =>
            \/ ret'.res = "Pending"
            \/ /\ PolledStore.tag = "OpenStream"
               /\ ret'.pull = "ReadySome"
               /\ ret'.res = "ReadySome"
               /\ ret'.val = <<Head(PolledStore.source.items)>>]_vars

\* A poll found nothing buffered at its cursor in an OpenStream store, pulled
\* the source, and returned the value the source yielded.
SuspensionOrPullWitness ==
  /\ ret.op = "poll_next"
  /\ ret.res = "ReadySome"
  /\ ret.pull = "ReadySome"
  /\ inner["a"].tag = "OpenStream"

\* C17. Lazy-store resumption with several readers: every reader that an
\* OpenStream store told to wait is resumed once the source makes progress.
\* The source wakes the waker it keeps, and the store wakes nobody, so a
\* reader waiting on a source that has not ended is resumed only if the
\* source still keeps its waker; nothing is buffered at its cursor meanwhile.
LazyResumption ==
  \A r \in Readers :
    (Suspended(r) /\ StoreOf(r).tag = "OpenStream" /\ ~StoreOf(r).source.done)
      => /\ StoreOf(r).source.waker = r
         /\ Get(StoreOf(r).data, rd[r].index) = <<>>

\* C18. The source is never pulled after exhaustion: once the source has
\* answered Ready(None), no later poll by any reader polls the source again.
NoPullAfterExhaustion ==
  \A s \in Stores :
    inner[s].tag = "OpenStream" => ~inner[s].source.repolled

\* C19. For every reader, the cursor is at most the length of its store's
\* data, whatever the variant of the store.
CursorWithinData ==
  \A r \in Readers : Attached(r) => rd[r].index <= Len(StoreOf(r).data)

\* A reader has taken every element of a store still open for writing and
\* was told to wait at the end of the data.
CursorWithinDataWitness ==
  \E r \in Readers :
    /\ Attached(r)
    /\ StoreOf(r).tag = "OpenWritable"
    /\ rd[r].index = MaxLen
    /\ rd[r].index = Len(StoreOf(r).data)
    /\ last[r] = "Pending"

\* Thread t holds the guard of its left operand and waits for the lock of
\* its right operand.
InsideEq(t) == cmp[t].pc = "lock_other"

\* C20. == is deadlock-free: when threads evaluate a == b and b == a at the
\* same time, each locking its left operand and then its right operand, both
\* evaluations complete and release both locks.  Whenever some thread is
\* inside ==, holding one lock, one of those threads can take its second.
EqualityDeadlockFree ==
  (\E t \in Threads : InsideEq(t))
    => \E t \in Threads : InsideEq(t) /\ held[cmp[t].other] = NoThread

====
